---- MODULE Spec2Model ----
(***************************************************************************)
(* Model of src/main.py: the "RAG Medical Query API" service.              *)
(*                                                                         *)
(* The state is the module-level configuration (MONGO_URI), the global     *)
(* startup_error, the three handles cached on app.state by the lifespan    *)
(* hook, the Motor clients the process has opened and closed, the          *)
(* rag_logs collection of the document store, and the outcome of the most  *)
(* recently handled HTTP request.  The document store is an external       *)
(* collaborator: every round trip to it (ping, insert_one) either returns  *)
(* or raises, chosen nondeterministically per call.                        *)
(*                                                                         *)
(* An HTTP request is one step: the endpoints share no mutable state       *)
(* (app.state and startup_error are written by the lifespan hook only, and *)
(* the collection is append-only and never read), so interleaving their    *)
(* awaits does not change what any of them does or returns.                *)
(*                                                                         *)
(* Strings the claims reason about (query, answer, contexts) are           *)
(* sequences of one-character strings, so that f-string interpolation is   *)
(* concatenation and "contains" is a real substring test.                  *)
(***************************************************************************)
EXTENDS Integers, Sequences, FiniteSets, TLC

VARIABLES MONGO_URI, startup_error, app_state, phase, opened, closed,
          rag_logs, clock, last

vars == <<MONGO_URI, startup_error, app_state, phase, opened, closed,
          rag_logs, clock, last>>

-----------------------------------------------------------------------------
(* Bounds and sample inputs *)

\* Number of HTTP requests served in one process lifetime.
MaxRequests == 2

\* Largest top_k a request carries (two decimal digits).
MaxTopK == 12

\* Values os.getenv("MONGO_URI") can yield: unset, set but empty, set.
MongoUris == {"None", "", "mongodb://store"}

\* Query strings: empty, one letter, and one holding a digit and a quote.
Queries == { <<>>, <<"a">>, <<"1", "'">> }

\* top_k values: negative, zero and a multi-digit positive one.
TopKs == {-1, 0, MaxTopK}

\* JSON bodies of POST /query: any subset of the two fields may be present.
Bodies ==
    { [f \in D |-> IF f = "query" THEN q ELSE k] :
        D \in SUBSET {"query", "top_k"}, q \in Queries, k \in TopKs }

\* How one round trip to the document store ends.
StoreOutcomes == {"ok", "raises"}

-----------------------------------------------------------------------------
(* Exceptions *)

NoFault == [type |-> "None", message |-> "None"]

\* A fault raised inside the try block before the insert (lines 195-215).
SynthesisFault == [type |-> "MemoryError", message |-> ""]

\* A fault raised by a store round trip (ping, insert_one).
StoreFault ==
    [type |-> "ServerSelectionTimeoutError", message |-> "store unreachable"]

\* traceback.format_exc() for the exception being handled.
format_exc(e) == <<"Traceback (most recent call last):", e.type, e.message>>

-----------------------------------------------------------------------------
(* Strings *)

DigitChars == <<"0", "1", "2", "3", "4", "5", "6", "7", "8", "9">>

RECURSIVE Digits(_)
Digits(n) ==
    IF n < 10 THEN <<DigitChars[n + 1]>>
    ELSE Digits(n \div 10) \o <<DigitChars[(n % 10) + 1]>>

\* str(int) as the f-string at line 197 formats top_k.
IntToStr(n) == IF n < 0 THEN <<"-">> \o Digits(0 - n) ELSE Digits(n)

\* `not MONGO_URI`: None and the empty string are both falsy.
Falsy(uri) == uri = "None" \/ uri = ""

-----------------------------------------------------------------------------
(* Pydantic models and the placeholder "RAG" step *)

\* QueryRequest.top_k default (line 73).
DefaultTopK == 5

\* Request validation: `query` is required, `top_k` is optional.
IsValidBody(body) == "query" \in DOMAIN body

\* The QueryRequest built from a body that validates.
QueryRequest(body) ==
    [query |-> body["query"],
     top_k |-> IF "top_k" \in DOMAIN body THEN body["top_k"] ELSE DefaultTopK]

\* Fields whose absence makes validation fail (exc.errors()).
ValidationErrors(body) == IF IsValidBody(body) THEN <<>> ELSE <<"query">>

\* f"This is a placeholder answer for '{query}'."
placeholder_answer_NoQuery(query) ==
    <<"T", "h", "i", "s", " ", "i", "s", " ", "a", " ", "p", "l", "a", "c",
      "e", "h", "o", "l", "d", "e", "r", " ", "a", "n", "s", "w", "e", "r", ".">>

placeholder_answer(query) ==
    <<"T", "h", "i", "s", " ", "i", "s", " ", "a", " ", "p", "l", "a", "c",
      "e", "h", "o", "l", "d", "e", "r", " ", "a", "n", "s", "w", "e", "r",
      " ", "f", "o", "r", " ", "'">>
    \o query \o <<"'", ".">>

\* The two f-strings of placeholder_contexts.
placeholder_contexts(query, top_k) ==
    << <<"P", "l", "a", "c", "e", "h", "o", "l", "d", "e", "r", " ", "c", "o",
         "n", "t", "e", "x", "t", " ", "1", " ", "f", "o", "r", " ", "q", "u",
         "e", "r", "y", ":", " ", "'">> \o query \o <<"'">>,
       <<"P", "l", "a", "c", "e", "h", "o", "l", "d", "e", "r", " ", "c", "o",
         "n", "t", "e", "x", "t", " ", "2", " ", "(", "t", "o", "p", "_", "k",
         " ", "w", "a", "s", " ">> \o IntToStr(top_k) \o <<")">> >>

\* QueryResponse(answer=..., contexts=...)
QueryResponse(answer, contexts) == [answer |-> answer, contexts |-> contexts]

-----------------------------------------------------------------------------
(* Log records *)

\* log_entry: the success document.
log_entry(now, query_request, response) ==
    [timestamp |-> now,
     request_query |-> query_request.query,
     request_top_k |-> query_request.top_k,
     response_answer |-> response.answer,
     response_contexts |-> response.contexts,
     status |-> "success"]

\* error_log_data: the error document.
error_log_data(now, query_request, e) ==
    [timestamp |-> now,
     request_query |-> query_request.query,
     request_top_k |-> query_request.top_k,
     error_message |-> e.message,
     error_traceback |-> format_exc(e),
     status |-> "error"]

-----------------------------------------------------------------------------
(* Exception handlers registered on the app *)

\* global_exception_handler: the response for an exception that leaves an
\* endpoint function.
global_exception_handler(exc) ==
    [status |-> 500,
     content |-> [error |-> "Internal Server Error",
                  type |-> exc.type,
                  message |-> exc.message,
                  traceback |-> format_exc(exc),
                  path |-> "url",
                  method |-> "http-method"]]

\* validation_exception_handler: the response for a body that fails
\* validation; the endpoint function is never entered.
validation_exception_handler(body) ==
    [status |-> 422,
     content |-> [error |-> "Validation Error",
                  message |-> "Request validation failed",
                  details |-> ValidationErrors(body),
                  body |-> body]]

-----------------------------------------------------------------------------
(* GET / *)

\* The diagnostics dict built before the connection test.
diagnostics(now) ==
    [status |-> "unknown",
     timestamp |-> now,
     mongo_uri_set |-> ~Falsy(MONGO_URI),
     client_initialized |-> app_state.client # "None",
     db_initialized |-> app_state.db # "None",
     collection_initialized |-> app_state.log_collection # "None",
     startup_error |-> startup_error]

\* Adds or overwrites keys of a dict.
Update(d, e) ==
    [k \in DOMAIN d \cup DOMAIN e |-> IF k \in DOMAIN e THEN e[k] ELSE d[k]]

\* A health check whose ping is awaited outside the try block.
health_check_PingUnguarded(now, ping) ==
    IF app_state.client = "None"
    THEN [status |-> 503,
          content |-> Update(diagnostics(now),
                             [status |-> "error",
                              error |-> "MongoDB client not initialized"]),
          ping |-> "none", fault |-> NoFault, escaped |-> FALSE]
    ELSE IF ping = "ok"
    THEN [status |-> 200,
          content |-> Update(diagnostics(now),
                             [status |-> "ok",
                              message |-> "All systems operational"]),
          ping |-> "ok", fault |-> NoFault, escaped |-> FALSE]
    ELSE [status |-> 500,
          content |-> global_exception_handler(StoreFault).content,
          ping |-> "raises", fault |-> StoreFault, escaped |-> TRUE]

\* health_check: `ping` is how the liveness round trip ends if it is made.
health_check(now, ping) ==
    IF app_state.client = "None"
    THEN [status |-> 503,
          content |-> Update(diagnostics(now),
                             [status |-> "error",
                              error |-> "MongoDB client not initialized"]),
          ping |-> "none", fault |-> NoFault, escaped |-> FALSE]
    ELSE IF ping = "ok"
    THEN [status |-> 200,
          content |-> Update(diagnostics(now),
                             [status |-> "ok",
                              message |-> "All systems operational"]),
          ping |-> "ok", fault |-> NoFault, escaped |-> FALSE]
    ELSE [status |-> 503,
          content |-> Update(diagnostics(now),
                             [status |-> "error",
                              error |-> StoreFault.message,
                              traceback |-> format_exc(StoreFault)]),
          ping |-> "raises", fault |-> StoreFault, escaped |-> FALSE]

-----------------------------------------------------------------------------
(* POST /query *)

\* The early return taken when app.state.log_collection is None.
service_unavailable ==
    [status |-> 503,
     content |-> [error |-> "Service Unavailable",
                  message |-> "MongoDB not connected. Cannot log requests.",
                  mongo_uri_set |-> ~Falsy(MONGO_URI),
                  startup_error |-> startup_error],
     attempts |-> <<>>, stored |-> <<>>, generated |-> "skipped",
     fault |-> NoFault, escaped |-> FALSE]

\* The try block: synthesis, then one insert of the success document.
\* `synth` and `ins1` say how synthesis and that insert end.
try_block(query_request, now, synth, ins1) ==
    IF synth = "raises"
    THEN [raised |-> SynthesisFault, attempts |-> <<>>, stored |-> <<>>,
          generated |-> "raises", response |-> QueryResponse(<<>>, <<>>)]
    ELSE LET response ==
                 QueryResponse(placeholder_answer(query_request.query),
                               placeholder_contexts(query_request.query,
                                                    query_request.top_k))
             entry == log_entry(now, query_request, response)
         IN  [raised |-> IF ins1 = "ok" THEN NoFault ELSE StoreFault,
              attempts |-> <<entry>>,
              stored |-> IF ins1 = "ok" THEN <<entry>> ELSE <<>>,
              generated |-> "ok",
              response |-> response]

\* An except block that lets a failure of the error insert propagate.
except_block_Unswallowed(query_request, now, t, ins2) ==
    LET e == t.raised
        doc == error_log_data(now, query_request, e)
    IN  IF ins2 = "ok"
        THEN [status |-> 500,
              content |-> [error |-> "Internal Server Error",
                           type |-> e.type,
                           message |-> e.message,
                           traceback |-> format_exc(e)],
              attempts |-> t.attempts \o <<doc>>,
              stored |-> t.stored \o <<doc>>,
              generated |-> t.generated, fault |-> e, escaped |-> FALSE]
        ELSE [status |-> 500,
              content |-> global_exception_handler(StoreFault).content,
              attempts |-> t.attempts \o <<doc>>,
              stored |-> t.stored,
              generated |-> t.generated, fault |-> e, escaped |-> TRUE]

\* The except block: one insert of the error document, whose own failure
\* is swallowed, then the 500 response.  `t` is what the try block did.
except_block(query_request, now, t, ins2) ==
    LET e == t.raised
        doc == error_log_data(now, query_request, e)
    IN  [status |-> 500,
         content |-> [error |-> "Internal Server Error",
                      type |-> e.type,
                      message |-> e.message,
                      traceback |-> format_exc(e)],
         attempts |-> t.attempts \o <<doc>>,
         stored |-> t.stored \o (IF ins2 = "ok" THEN <<doc>> ELSE <<>>),
         generated |-> t.generated, fault |-> e, escaped |-> FALSE]

\* What the endpoint does once past the handle test.
handle_query(query_request, now, synth, ins1, ins2) ==
    LET t == try_block(query_request, now, synth, ins1)
    IN  IF t.raised = NoFault
        THEN [status |-> 200, content |-> t.response,
              attempts |-> t.attempts, stored |-> t.stored,
              generated |-> t.generated, fault |-> NoFault,
              escaped |-> FALSE]
        ELSE except_block(query_request, now, t, ins2)

\* An endpoint that does not test the handle before using it.
get_rag_response_NoGuard(query_request, now, synth, ins1, ins2) ==
    handle_query(query_request, now, synth, ins1, ins2)

\* get_rag_response
get_rag_response(query_request, now, synth, ins1, ins2) ==
    IF app_state.log_collection = "None"
    THEN service_unavailable
    ELSE handle_query(query_request, now, synth, ins1, ins2)

-----------------------------------------------------------------------------
(* Lifespan *)

NoHandles == [client |-> "None", db |-> "None", log_collection |-> "None"]

\* A branch for the unset MONGO_URI that does not record the error.
lifespan_no_uri_NoError ==
    [startup_error |-> "None", app_state |-> NoHandles]

\* The branch taken when MONGO_URI is not set (lines 28-36).
lifespan_no_uri ==
    [startup_error |->
         "FATAL ERROR: MONGO_URI environment variable is not set.",
     app_state |-> NoHandles]

\* An except branch that forgets to reset app.state.client.
lifespan_except_KeepsClient(s) ==
    [startup_error |-> "FATAL: Could not connect to MongoDB on startup",
     app_state |-> [s EXCEPT !.db = "None", !.log_collection = "None"]]

\* The except branch of startup (lines 54-60); `s` is app.state when the
\* exception is caught.
lifespan_except(s) ==
    [startup_error |-> "FATAL: Could not connect to MongoDB on startup",
     app_state |-> NoHandles]

\* The end of the try block of startup (lines 49-52); `s` is app.state
\* after the client was assigned and the ping returned.
lifespan_connected(s) ==
    [startup_error |-> "None",
     app_state |-> [s EXCEPT !.db = "event", !.log_collection = "rag_logs"]]

-----------------------------------------------------------------------------
(* The state machine *)

\* The outcome of the request handled last: what was asked, the handle the
\* endpoint tested, how the store behaved (`store`: how synthesis, the first
\* and the second insert would end), and what the endpoint did and returned.
NoRequest ==
    [kind |-> "none", body |-> <<>>, handle |-> "None", status |-> 0,
     content |-> <<>>, attempts |-> <<>>, generated |-> "skipped",
     ping |-> "none", fault |-> NoFault, escaped |-> FALSE,
     store |-> [synth |-> "unused", ins1 |-> "unused", ins2 |-> "unused"]]

Init ==
    /\ MONGO_URI \in MongoUris
    /\ startup_error = "None"
    /\ app_state = [client |-> "unset", db |-> "unset",
                    log_collection |-> "unset"]
    /\ phase = "init"
    /\ opened = {}
    /\ closed = {}
    /\ rag_logs = <<>>
    /\ clock = 0
    /\ last = NoRequest

\* The part of lifespan before the yield.  `ctor` is how constructing the
\* AsyncIOMotorClient ends, `ping` how the startup ping ends.
lifespan_startup ==
    /\ phase = "init"
    /\ \E ctor \in StoreOutcomes, ping \in StoreOutcomes :
         LET assigned == [app_state EXCEPT !.client = "motor"]
             r == IF Falsy(MONGO_URI) THEN lifespan_no_uri
                  ELSE IF ctor = "raises" THEN lifespan_except(app_state)
                  ELSE IF ping = "raises" THEN lifespan_except(assigned)
                  ELSE lifespan_connected(assigned)
         IN  /\ startup_error' = r.startup_error
             /\ app_state' = r.app_state
             /\ opened' = IF ~Falsy(MONGO_URI) /\ ctor = "ok"
                          THEN opened \cup {"motor"} ELSE opened
    /\ phase' = "running"
    /\ UNCHANGED <<MONGO_URI, closed, rag_logs, clock, last>>

\* The part of lifespan after the yield.
lifespan_shutdown ==
    /\ phase = "running"
    /\ phase' = "stopped"
    /\ closed' = IF app_state.client # "None"
                 THEN closed \cup {app_state.client} ELSE closed
    /\ UNCHANGED <<MONGO_URI, startup_error, app_state, opened, rag_logs,
                   clock, last>>

\* One GET / request.
GetHealth ==
    /\ phase = "running"
    /\ clock < MaxRequests
    /\ \E ping \in StoreOutcomes :
         LET r == health_check(clock, ping)
         IN  last' = [kind |-> "health", body |-> <<>>,
                      handle |-> app_state.client,
                      status |-> r.status, content |-> r.content,
                      attempts |-> <<>>, generated |-> "skipped",
                      ping |-> r.ping, fault |-> r.fault,
                      escaped |-> r.escaped, store |-> NoRequest.store]
    /\ clock' = clock + 1
    /\ UNCHANGED <<MONGO_URI, startup_error, app_state, phase, opened, closed,
                   rag_logs>>

\* One POST /query request: validation, then the endpoint function.
PostQuery ==
    /\ phase = "running"
    /\ clock < MaxRequests
    /\ \E body \in Bodies, synth \in StoreOutcomes,
          ins1 \in StoreOutcomes, ins2 \in StoreOutcomes :
         IF ~IsValidBody(body)
         THEN LET v == validation_exception_handler(body)
              IN  /\ last' = [kind |-> "query", body |-> body,
                              handle |-> app_state.log_collection,
                              status |-> v.status, content |-> v.content,
                              attempts |-> <<>>, generated |-> "skipped",
                              ping |-> "none", fault |-> NoFault,
                              escaped |-> FALSE, store |-> NoRequest.store]
                  /\ rag_logs' = rag_logs
         ELSE LET r == get_rag_response(QueryRequest(body), clock, synth,
                                        ins1, ins2)
              IN  /\ last' = [kind |-> "query", body |-> body,
                              handle |-> app_state.log_collection,
                              status |-> r.status, content |-> r.content,
                              attempts |-> r.attempts,
                              generated |-> r.generated,
                              ping |-> "none", fault |-> r.fault,
                              escaped |-> r.escaped,
                              store |-> [synth |-> synth, ins1 |-> ins1,
                                         ins2 |-> ins2]]
                  /\ rag_logs' = rag_logs \o r.stored
    /\ clock' = clock + 1
    /\ UNCHANGED <<MONGO_URI, startup_error, app_state, phase, opened,
                   closed>>

Next ==
    \/ lifespan_startup
    \/ lifespan_shutdown
    \/ GetHealth
    \/ PostQuery

Spec == Init /\ [][Next]_vars

-----------------------------------------------------------------------------
(* Vocabulary of the claims *)

\* The last request was a POST /query whose body validated, so the endpoint
\* function ran.
ValidQuery == last.kind = "query" /\ IsValidBody(last.body)

\* The QueryRequest of the last request.
LastRequest == QueryRequest(last.body)

\* A fault occurred in the try block of the last request.
FaultInTry ==
    /\ ValidQuery
    /\ last.handle # "None"
    /\ (last.store.synth = "raises" \/ last.store.ins1 = "raises")

Is2xx(status) == status \in 200 .. 299

CommonFields == {"timestamp", "request_query", "request_top_k", "status"}
SuccessFields == {"response_answer", "response_contexts"}
ErrorFields == {"error_message", "error_type", "error_traceback"}

\* Startup ended without usable handles.
Degraded == phase # "init" /\ (Falsy(MONGO_URI) \/ startup_error # "None")

-----------------------------------------------------------------------------
(* Claims *)

\* C1: on the success path of POST /query (valid request, handle available,
\* placeholder generation succeeds) the response is the 200 QueryResponse
\* whether the insert of the success record succeeds or fails.
C1_SuccessPathIgnoresInsert ==
    (ValidQuery /\ last.handle # "None" /\ last.store.synth = "ok")
        => /\ last.status = 200
           /\ last.content =
                  QueryResponse(placeholder_answer(LastRequest.query),
                                placeholder_contexts(LastRequest.query,
                                                     LastRequest.top_k))

\* C2: a POST /query request attempts exactly one LogRecord insert, and the
\* attempted record's status is "success" iff the response is 2xx.  Stated
\* for the requests that reach the endpoint's logging code (the body
\* validates and a handle is available); a request turned away before it
\* (422, 503) attempts none, which is C3's subject.
C2_ExactlyOneAttempt ==
    (ValidQuery /\ last.handle # "None")
        => /\ Len(last.attempts) = 1
           /\ (last.attempts[1].status = "success" <=> Is2xx(last.status))

\* C3: with no connection handle, POST /query answers 503 at once: no
\* placeholder generation, no insert attempt, no store round trip on which it
\* could wait, and no fault leaving the endpoint.
C3_UnavailableReturns503 ==
    (ValidQuery /\ last.handle = "None")
        => /\ last.status = 503
           /\ last.content.error = "Service Unavailable"
           /\ last.generated = "skipped"
           /\ last.attempts = <<>>
           /\ last.ping = "none"
           /\ ~last.escaped

C3_Witness ==
    /\ ValidQuery
    /\ last.handle = "None"
    /\ last.status = 503
    /\ last.store.synth = "ok"
    /\ last.store.ins1 = "ok"

\* C4: GET / answers 503 iff there is no client or the liveness ping fails,
\* and 200 otherwise; the response is always the structured diagnostics and
\* the ping failure never leaves the endpoint.
C4_HealthStatus ==
    last.kind = "health"
        => /\ last.status \in {200, 503}
           /\ (last.status = 503
                   <=> (last.handle = "None" \/ last.ping = "raises"))
           /\ ~last.escaped
           /\ "status" \in DOMAIN last.content
           /\ last.content.status
                  = (IF last.status = 200 THEN "ok" ELSE "error")

C4_Witness ==
    /\ last.kind = "health"
    /\ last.handle # "None"
    /\ last.ping = "raises"
    /\ last.status = 503

\* C5: once the shutdown part of the lifespan has run, every client the
\* startup hook created has been closed.
C5_ClientsClosedAtShutdown == phase = "stopped" => opened \subseteq closed

\* C6 (as stated): in degraded mode every GET / answers 503 and every
\* POST /query, whatever its body, answers 503 without generation.
C6_DegradedAlways503 ==
    Degraded
        => /\ (last.kind = "health" => last.status = 503)
           /\ (last.kind = "query"
                   => last.status = 503 /\ last.generated = "skipped")

\* C6 (amended): an absent connection string or a failed startup leaves the
\* service running in degraded mode (error recorded, no handles); there every
\* GET / answers 503, every POST /query whose body validates answers 503,
\* and one whose body fails validation answers 422; none generates or
\* inserts.
C6_DegradedMode ==
    /\ (phase # "init" /\ Falsy(MONGO_URI)) => startup_error # "None"
    /\ Degraded
        => /\ (last.kind = "health" => last.status = 503)
           /\ (last.kind = "query"
                   => /\ last.status
                          = (IF IsValidBody(last.body) THEN 503 ELSE 422)
                      /\ last.generated = "skipped"
                      /\ last.attempts = <<>>)

C6_Witness ==
    /\ Degraded
    /\ MONGO_URI = "mongodb://store"
    /\ ValidQuery
    /\ last.status = 503

\* C7: a fault in the try block of POST /query (synthesis or the insert of
\* the success record) makes the endpoint attempt an error record and answer
\* 500 with the fault's message, type and trace; a failure of that error
\* insert is swallowed, so no fault leaves the endpoint.
C7_FaultLogsErrorAndReturns500 ==
    FaultInTry
        => LET e == IF last.store.synth = "raises" THEN SynthesisFault
                    ELSE StoreFault
               n == Len(last.attempts)
           IN  /\ n >= 1
               /\ last.attempts[n].status = "error"
               /\ last.attempts[n].error_message = e.message
               /\ last.attempts[n].error_traceback = format_exc(e)
               /\ last.status = 500
               /\ last.content = [error |-> "Internal Server Error",
                                  type |-> e.type,
                                  message |-> e.message,
                                  traceback |-> format_exc(e)]
               /\ ~last.escaped

C7_Witness ==
    /\ FaultInTry
    /\ last.store.synth = "ok"
    /\ last.store.ins2 = "raises"
    /\ last.status = 500

\* C8: every attempted LogRecord carries timestamp, request_query and
\* request_top_k, and exactly the field group of its status: response_answer
\* and response_contexts for success; error_message, error_type and
\* error_traceback for error.
C8_FieldGroups ==
    \A i \in 1 .. Len(last.attempts) :
        LET d == last.attempts[i]
        IN  /\ CommonFields \subseteq DOMAIN d
            /\ d.status = "success"
                   => /\ SuccessFields \subseteq DOMAIN d
                      /\ DOMAIN d \cap ErrorFields = {}
            /\ d.status = "error"
                   => /\ ErrorFields \subseteq DOMAIN d
                      /\ DOMAIN d \cap SuccessFields = {}

\* The string `s` contains the string `sub`.
Contains(s, sub) ==
    \E i \in 0 .. (Len(s) - Len(sub)) : SubSeq(s, i + 1, i + Len(sub)) = sub

\* What C9 asks of a QueryResponse for the request `qr`.
AnswersRequest(content, qr) ==
    /\ DOMAIN content = {"answer", "contexts"}
    /\ Contains(content.answer, qr.query)
    /\ Len(content.contexts) > 0
    /\ \E i \in 1 .. Len(content.contexts) :
           Contains(content.contexts[i], IntToStr(qr.top_k))

C10_HandleCoherence ==
    phase # "init"
        => /\ \/ /\ app_state = NoHandles
                 /\ startup_error # "None"
              \/ /\ app_state = [client |-> "motor", db |-> "event",
                                 log_collection |-> "rag_logs"]
                 /\ startup_error = "None"
           /\ last.kind \in {"health", "query"}
                  => (last.handle = "None"
                          <=> (app_state.client = "None"
                                   /\ app_state.log_collection = "None"))

C10_Witness ==
    /\ app_state.client = "motor"
    /\ last.kind = "query"
    /\ last.status = 500
    /\ Len(rag_logs) > 0

=============================================================================
